---- MODULE Spec2Model ----
(***************************************************************************)
(* A model of RTFDE/utils.py: the hex encoder of control parameters, the   *)
(* encoder of escaped control characters, the codeword predicate, the two  *)
(* tree flatteners, the string and tree diffs, and the three gated         *)
(* loggers.                                                                *)
(*                                                                         *)
(* A Python str is a sequence of one-character strings.  Each function of  *)
(* utils.py has a specification of its own (SpecHex, SpecEnc, ...): its    *)
(* Init draws the arguments of one call, its actions run the call.  The    *)
(* loggers, the only state that outlives a call, are in Spec.              *)
(***************************************************************************)
EXTENDS Integers, Sequences, FiniteSets, TLC

VARIABLES
    pc,                 \* the position of the running call
    control_parameter,  \* get_control_parameter_as_hex_strings: its argument
    hex_return,         \* ... and what the call returned or raised
    raw_text,           \* encode_escaped_control_chars: its argument
    cleaned,            \* ... its local variable, which it returns
    fresh,              \* history: which characters of cleaned a replace() wrote
    touched,            \* history: a replace() matched a character one had written
    token,              \* is_codeword_with_numeric_arg: its first argument
    codeword,           \* ... its second argument
    codeword_return,    \* ... and what the call returned
    tree,               \* flatten_tree, flatten_tree_to_string_array: the argument
    gen,                \* ... the generator: the function and its stack of frames
    out,                \* ... what the generator has yielded so far, in order
    original,           \* get_string_diff, get_tree_diff: the first argument
    revised,            \* ... the second argument
    sep,                \* get_string_diff: the separator, or None
    orig_split,         \* get_string_diff: the units of original that are compared
    revised_split,      \* ... and those of revised
    flat_original,      \* get_tree_diff: list(flatten_tree(original))
    flat_revised,       \* ... and list(flatten_tree(revised))
    diff_return,        \* what the diff returned
    level,              \* logging: Logger.level of each logger
    records,            \* logging: the records the loggers emitted, in order
    raised,             \* what the last log call raised, or None
    ncalls              \* history: how many log calls were made

hexVars == <<control_parameter, hex_return>>
encVars == <<raw_text, cleaned, fresh, touched>>
cwVars == <<token, codeword, codeword_return>>
flatVars == <<tree, gen, out>>
diffVars == <<original, revised, sep, orig_split, revised_split,
              flat_original, flat_revised, diff_return>>
logVars == <<level, records, raised, ncalls>>
vars == <<pc, hexVars, encVars, cwVars, flatVars, diffVars, logVars>>

\* What the calls of one function leave alone: the variables of the others.
notHexVars == <<encVars, cwVars, flatVars, diffVars, logVars>>
notEncVars == <<hexVars, cwVars, flatVars, diffVars, logVars>>
notCwVars == <<hexVars, encVars, flatVars, diffVars, logVars>>
notFlatVars == <<hexVars, encVars, cwVars, diffVars, logVars>>
notDiffVars == <<hexVars, encVars, cwVars, flatVars, logVars>>
notLogVars == <<hexVars, encVars, cwVars, flatVars, diffVars>>

(***************************************************************************)
(* Sequences                                                               *)
(***************************************************************************)
\* All sequences over S of length lo..hi.
SeqsOf(S, lo, hi) == UNION {[1..n -> S] : n \in lo..hi}

Max(a, b) == IF a >= b THEN a ELSE b

\* s[i:] of Python, i counted from 0.
From(s, i) == SubSeq(s, i + 1, Len(s))

\* n copies of c.
Repeat(c, n) == [i \in 1..n |-> c]

\* None, also the value of a variable no call has assigned.
None == [type |-> "NoneType"]

HexIdle == control_parameter = None /\ hex_return = None
EncIdle == raw_text = None /\ cleaned = None /\ fresh = None /\ touched = FALSE
CwIdle == token = None /\ codeword = None /\ codeword_return = None
FlatIdle == tree = None /\ gen = None /\ out = None
DiffIdle == /\ original = None /\ revised = None /\ sep = None
            /\ orig_split = None /\ revised_split = None
            /\ flat_original = None /\ flat_revised = None
            /\ diff_return = None
LogIdle == level = None /\ records = None /\ raised = None /\ ncalls = 0
IdleButHex == EncIdle /\ CwIdle /\ FlatIdle /\ DiffIdle /\ LogIdle
IdleButEnc == HexIdle /\ CwIdle /\ FlatIdle /\ DiffIdle /\ LogIdle
IdleButCw == HexIdle /\ EncIdle /\ FlatIdle /\ DiffIdle /\ LogIdle
IdleButFlat == HexIdle /\ EncIdle /\ CwIdle /\ DiffIdle /\ LogIdle
IdleButDiff == HexIdle /\ EncIdle /\ CwIdle /\ FlatIdle /\ LogIdle
IdleButLog == HexIdle /\ EncIdle /\ CwIdle /\ FlatIdle /\ DiffIdle

(***************************************************************************)
(* get_control_parameter_as_hex_strings (utils.py 30-44)                   *)
(***************************************************************************)
HexChars == <<"0", "1", "2", "3", "4", "5", "6", "7",
              "8", "9", "a", "b", "c", "d", "e", "f">>

DecChars == <<"0", "1", "2", "3", "4", "5", "6", "7", "8", "9">>

\* The largest integer argument drawn.
MaxParam == 65540

\* The longest string argument drawn that is not the str() of an integer.
MaxStrLen == 2

\* The field width of the format specification "#06x".
HexWidth == 6

RECURSIVE Digits(_, _, _)
\* The digits of n >= 0 in the given base, most significant first, as characters.
Digits(n, base, chars) ==
    IF n < base THEN <<chars[n + 1]>>
    ELSE Append(Digits(n \div base, base, chars), chars[(n % base) + 1])

\* str(n) of a Python int.
StrOfInt(n) == IF n < 0 THEN <<"-">> \o Digits(-n, 10, DecChars)
               ELSE Digits(n, 10, DecChars)

\* format(n, "#04x"): the field width taken for the number of digits.
FormatHexWidth4(n) ==
    LET sign == IF n < 0 THEN <<"-">> ELSE <<>>
        digs == Digits(IF n < 0 THEN -n ELSE n, 16, HexChars)
        fill == Max(0, 4 - Len(sign) - 2 - Len(digs))
    IN  sign \o <<"0", "x">> \o Repeat("0", fill) \o digs

\* format(n, "#06x") of a Python int: the sign, the prefix 0x of the alternate
\* form, then the lower-case hex digits, zero-filled between prefix and digits
\* up to the field width.
FormatHex(n) ==
    LET sign == IF n < 0 THEN <<"-">> ELSE <<>>
        digs == Digits(IF n < 0 THEN -n ELSE n, 16, HexChars)
        fill == Max(0, HexWidth - Len(sign) - 2 - Len(digs))
    IN  sign \o <<"0", "x">> \o Repeat("0", fill) \o digs

IsSpace(c) == c = " "

RECURSIVE LStrip(_)
LStrip(s) == IF s # <<>> /\ IsSpace(Head(s)) THEN LStrip(Tail(s)) ELSE s

RECURSIVE RStrip(_)
RStrip(s) == IF s # <<>> /\ IsSpace(s[Len(s)])
             THEN RStrip(SubSeq(s, 1, Len(s) - 1)) ELSE s

\* str.strip() with no argument.
Strip(s) == RStrip(LStrip(s))

DigitValue(c) == CHOOSE d \in 0..9 : DecChars[d + 1] = c

IsDecChar(c) == \E d \in 1..10 : DecChars[d] = c

RECURSIVE DecValue(_)
DecValue(ds) == IF ds = <<>> THEN 0
                ELSE 10 * DecValue(SubSeq(ds, 1, Len(ds) - 1))
                     + DigitValue(ds[Len(ds)])

\* int(s) of a Python str: surrounding whitespace is ignored, then an
\* optional sign and at least one decimal digit; anything else raises
\* ValueError.
IntOfStr(s) ==
    LET t    == Strip(s)
        neg  == t # <<>> /\ Head(t) = "-"
        body == IF t # <<>> /\ Head(t) \in {"-", "+"} THEN Tail(t) ELSE t
    IN  IF body # <<>> /\ \A i \in 1..Len(body) : IsDecChar(body[i])
        THEN [ok |-> TRUE, val |-> IF neg THEN -DecValue(body) ELSE DecValue(body)]
        ELSE [ok |-> FALSE, val |-> 0]

HexStrAlphabet == {"4", "-", " ", "z"}

\* The arguments drawn: every integer of -2..MaxParam, its str(), and every
\* short string over an alphabet with a digit, a sign, a blank and a letter.
InitHex ==
    /\ pc = "get_control_parameter_as_hex_strings"
    /\ hex_return = None
    /\ IdleButHex
    /\ \/ \E n \in -2..MaxParam :
            control_parameter = [type |-> "int", val |-> n]
       \/ \E n \in -2..MaxParam :
            control_parameter = [type |-> "str", val |-> StrOfInt(n)]
       \/ \E s \in SeqsOf(HexStrAlphabet, 0, MaxStrLen) :
            control_parameter = [type |-> "str", val |-> s]

\* line 40: the argument is an int and formats.
HexFormatInt ==
    /\ pc = "get_control_parameter_as_hex_strings"
    /\ control_parameter.type = "int"
    /\ hex_return' = [type |-> "str", val |-> FormatHex(control_parameter.val)]
    /\ pc' = "returned"
    /\ UNCHANGED <<control_parameter, notHexVars>>

\* lines 40-44: a str does not take the format code x (ValueError), is
\* converted with int() and formatted.
HexFormatStr ==
    /\ pc = "get_control_parameter_as_hex_strings"
    /\ control_parameter.type = "str"
    /\ IntOfStr(control_parameter.val).ok
    /\ hex_return' = [type |-> "str",
                      val |-> FormatHex(IntOfStr(control_parameter.val).val)]
    /\ pc' = "returned"
    /\ UNCHANGED <<control_parameter, notHexVars>>

\* line 43: int() raises ValueError inside the handler, which propagates.
HexRaise ==
    /\ pc = "get_control_parameter_as_hex_strings"
    /\ control_parameter.type = "str"
    /\ ~IntOfStr(control_parameter.val).ok
    /\ hex_return' = [type |-> "ValueError"]
    /\ pc' = "raised"
    /\ UNCHANGED <<control_parameter, notHexVars>>

NextHex == HexFormatInt \/ HexFormatStr \/ HexRaise

SpecHex == InitHex /\ [][NextHex]_vars

(***************************************************************************)
(* C4                                                                      *)
(***************************************************************************)
\* The largest value of four hexadecimal digits, 0xFFFF.
FourHexDigits == 16 ^ 4 - 1

IsLowerHexChar(c) == \E d \in 1..16 : HexChars[d] = c

RECURSIVE HexValue(_)
HexValue(hs) ==
    IF hs = <<>> THEN 0
    ELSE 16 * HexValue(SubSeq(hs, 1, Len(hs) - 1))
         + (CHOOSE d \in 0..15 : HexChars[d + 1] = hs[Len(hs)])

\* s is 0x followed by exactly four lower-case hex digits whose value is n.
IsSixCharHexOf(s, n) ==
    /\ Len(s) = 6
    /\ s[1] = "0" /\ s[2] = "x"
    /\ \A i \in 3..6 : IsLowerHexChar(s[i])
    /\ HexValue(From(s, 2)) = n

\* A decimal-digit string as str() writes a natural number: digits only, no
\* leading zero but for 0 itself.
IsDecimalDigitString(s) ==
    /\ s # <<>>
    /\ \A i \in 1..Len(s) : IsDecChar(s[i])
    /\ (Len(s) > 1 => s[1] # "0")

RECURSIVE PlaceValue(_, _)
\* The number a digit string writes, read from its most significant digit.
PlaceValue(ds, acc) ==
    IF ds = <<>> THEN acc
    ELSE PlaceValue(Tail(ds), 10 * acc + DigitValue(Head(ds)))

\* Whether the argument is an integer, or the decimal-digit string of one.
ArgumentIsNumber ==
    \/ control_parameter.type = "int"
    \/ control_parameter.type = "str" /\ IsDecimalDigitString(control_parameter.val)

\* The integer the argument is, or is the decimal-digit string of.
ArgumentNumber ==
    IF control_parameter.type = "int" THEN control_parameter.val
    ELSE PlaceValue(control_parameter.val, 0)

\* C4: for every n of 0..0xFFFF, given as an integer or as its decimal-digit
\* string, the call returns 0x followed by exactly 4 lower-case zero-padded
\* hexadecimal digits whose value is n (so the same string for both forms).
C4_SixCharHex ==
    (/\ pc # "get_control_parameter_as_hex_strings"
     /\ ArgumentIsNumber
     /\ ArgumentNumber \in 0..FourHexDigits)
    => /\ pc = "returned"
       /\ hex_return.type = "str"
       /\ IsSixCharHexOf(hex_return.val, ArgumentNumber)

C4_Witness ==
    /\ pc = "returned"
    /\ control_parameter = [type |-> "str", val |-> <<"4", "2">>]
    /\ hex_return.val = <<"0", "x", "0", "0", "2", "a">>
(***************************************************************************)
(* encode_escaped_control_chars (utils.py 66-78)                           *)
(***************************************************************************)
\* The longest text drawn.
MaxTextLen == 5

\* A backslash, the two braces and a character that is none of them.
TextAlphabet == {"\\", "{", "}", "a"}

\* The three replace() calls with the braces first and the backslash last.
SubstitutionsBracesFirst ==
    << [old |-> <<"\\", "{">>,  new |-> <<"\\", "'", "7", "b">>],
       [old |-> <<"\\", "}">>,  new |-> <<"\\", "'", "7", "d">>],
       [old |-> <<"\\", "\\">>, new |-> <<"\\", "'", "5", "c">>] >>

\* The three replace() calls on single characters.
SubstitutionsSingleChars ==
    << [old |-> <<"\\">>, new |-> <<"\\", "'", "5", "c">>],
       [old |-> <<"{">>,  new |-> <<"\\", "'", "7", "b">>],
       [old |-> <<"}">>,  new |-> <<"\\", "'", "7", "d">>] >>

\* The arguments of the three replace() calls of lines 75, 76 and 77.  The
\* Python literal '\\\\' is two backslashes, '\\{' a backslash and a brace,
\* "\\'5c" the four characters \ ' 5 c.
Substitutions ==
    << [old |-> <<"\\", "\\">>, new |-> <<"\\", "'", "5", "c">>],
       [old |-> <<"\\", "{">>,  new |-> <<"\\", "'", "7", "b">>],
       [old |-> <<"\\", "}">>,  new |-> <<"\\", "'", "7", "d">>] >>

StartsWith(s, prefix) ==
    Len(prefix) <= Len(s) /\ SubSeq(s, 1, Len(prefix)) = prefix

RECURSIVE MatchStarts(_, _, _)
\* Where str.replace(old, ...) and re.split(old, ...) find old, old not empty,
\* in s from position i on: the matches do not overlap and are found from the
\* left.
MatchStarts(s, old, i) ==
    IF i + Len(old) - 1 > Len(s) THEN <<>>
    ELSE IF SubSeq(s, i, i + Len(old) - 1) = old
         THEN <<i>> \o MatchStarts(s, old, i + Len(old))
         ELSE MatchStarts(s, old, i + 1)

RECURSIVE Splice(_, _, _, _, _)
\* s from position i on, with the n elements at each of the starts replaced by
\* new.
Splice(s, starts, n, new, i) ==
    IF i > Len(s) THEN <<>>
    ELSE IF starts # <<>> /\ Head(starts) = i
         THEN new \o Splice(s, Tail(starts), n, new, i + n)
         ELSE <<s[i]>> \o Splice(s, starts, n, new, i + 1)

\* s.replace(old, new).
StrReplace(s, old, new) == Splice(s, MatchStarts(s, old, 1), Len(old), new, 1)

\* The history of cleaned.replace(old, new): the characters it writes are
\* fresh, the others are as they were.
FreshAfter(s, marks, old, new) ==
    Splice(marks, MatchStarts(s, old, 1), Len(old), Repeat(TRUE, Len(new)), 1)

\* Whether a match of old in s holds a character a replace() wrote.
MatchesFresh(s, marks, old) ==
    LET starts == MatchStarts(s, old, 1)
    IN  \E k \in 1..Len(starts) : \E j \in 0..(Len(old) - 1) : marks[starts[k] + j]

InitEnc ==
    /\ pc = "enc_75"
    /\ raw_text \in SeqsOf(TextAlphabet, 0, MaxTextLen)
    /\ cleaned = None
    /\ fresh = Repeat(FALSE, Len(raw_text))
    /\ touched = FALSE
    /\ IdleButEnc

\* line 75: cleaned = raw_text.replace('\\\\', "\\'5c")
ReplaceBackslash ==
    /\ pc = "enc_75"
    /\ cleaned' = StrReplace(raw_text, Substitutions[1].old, Substitutions[1].new)
    /\ fresh' = FreshAfter(raw_text, fresh, Substitutions[1].old, Substitutions[1].new)
    /\ touched' = (touched \/ MatchesFresh(raw_text, fresh, Substitutions[1].old))
    /\ pc' = "enc_76"
    /\ UNCHANGED <<raw_text, notEncVars>>

\* line 76: cleaned = cleaned.replace('\\{', "\\'7b")
ReplaceOpenBrace ==
    /\ pc = "enc_76"
    /\ cleaned' = StrReplace(cleaned, Substitutions[2].old, Substitutions[2].new)
    /\ fresh' = FreshAfter(cleaned, fresh, Substitutions[2].old, Substitutions[2].new)
    /\ touched' = (touched \/ MatchesFresh(cleaned, fresh, Substitutions[2].old))
    /\ pc' = "enc_77"
    /\ UNCHANGED <<raw_text, notEncVars>>

\* lines 77-78: cleaned = cleaned.replace('\\}', "\\'7d"); return cleaned
ReplaceCloseBrace ==
    /\ pc = "enc_77"
    /\ cleaned' = StrReplace(cleaned, Substitutions[3].old, Substitutions[3].new)
    /\ fresh' = FreshAfter(cleaned, fresh, Substitutions[3].old, Substitutions[3].new)
    /\ touched' = (touched \/ MatchesFresh(cleaned, fresh, Substitutions[3].old))
    /\ pc' = "returned"
    /\ UNCHANGED <<raw_text, notEncVars>>

NextEnc == ReplaceBackslash \/ ReplaceOpenBrace \/ ReplaceCloseBrace

SpecEnc == InitEnc /\ [][NextEnc]_vars

(***************************************************************************)
(* C3                                                                      *)
(***************************************************************************)
\* The escape sequence \'hh of a backslash or a brace.
EscapeOf(c) ==
    CASE c = "\\" -> <<"\\", "'", "5", "c">>
      [] c = "{"  -> <<"\\", "'", "7", "b">>
      [] c = "}"  -> <<"\\", "'", "7", "d">>

IsControlChar(c) == c \in {"\\", "{", "}"}

RECURSIVE EscapeEachChar(_)
\* t with each single backslash and brace replaced by its escape sequence.
EscapeEachChar(t) ==
    IF t = <<>> THEN <<>>
    ELSE (IF IsControlChar(Head(t)) THEN EscapeOf(Head(t)) ELSE <<Head(t)>>)
         \o EscapeEachChar(Tail(t))

RECURSIVE EscapeEachPair(_)
\* t read from the left, with each backslash that is followed by a backslash
\* or a brace replaced, together with that character, by the character's
\* escape sequence, and every other character kept.
EscapeEachPair(t) ==
    IF t = <<>> THEN <<>>
    ELSE IF Len(t) >= 2 /\ t[1] = "\\" /\ IsControlChar(t[2])
         THEN EscapeOf(t[2]) \o EscapeEachPair(From(t, 2))
         ELSE <<Head(t)>> \o EscapeEachPair(Tail(t))

\* C3 as stated: the result is the text with each single literal backslash,
\* '{' and '}' replaced by \'5c, \'7b and \'7d and every other character kept.
C3_EachSingleCharEscaped ==
    pc = "returned" => cleaned = EscapeEachChar(raw_text)

\* C3 as amended: the result is the text with each two-character escaped
\* control character (backslash-backslash, backslash-'{', backslash-'}', read
\* from the left) replaced by \'5c, \'7b or \'7d; every other character, a
\* lone backslash or brace included, stays unchanged and in place, so a text
\* with no backslash is returned as it is.
C3_EachEscapedPairEncoded ==
    pc = "returned" =>
        /\ cleaned = EscapeEachPair(raw_text)
        /\ ((\A i \in 1..Len(raw_text) : raw_text[i] # "\\") => cleaned = raw_text)

\* The text backslash, '{', '}' gives \'7b followed by the lone '}'.
C3_Witness ==
    /\ pc = "returned"
    /\ raw_text = <<"\\", "{", "}">>
    /\ cleaned = <<"\\", "'", "7", "b", "}">>

(***************************************************************************)
(* C10                                                                     *)
(***************************************************************************)
\* Whether substitution k matches at the head of t.
MatchesAtHead(t, k) == StartsWith(t, Substitutions[k].old)

RECURSIVE OnePass(_)
\* One pass over t from the left that substitutes each match of the patterns
\* once and never looks at what it wrote.
OnePass(t) ==
    IF t = <<>> THEN <<>>
    ELSE IF \E k \in 1..3 : MatchesAtHead(t, k)
         THEN LET k == CHOOSE k \in 1..3 : MatchesAtHead(t, k)
              IN  Substitutions[k].new \o OnePass(From(t, Len(Substitutions[k].old)))
         ELSE <<Head(t)>> \o OnePass(Tail(t))

\* C10: no replace() matches a character an earlier replace() wrote, and the
\* three replacements in sequence give what one pass from the left gives that
\* substitutes each match of the three patterns once.
C10_NoDoubleEscape ==
    /\ ~touched
    /\ pc = "returned" => cleaned = OnePass(raw_text)

\* Two backslashes then a brace: the first step writes \'5c before the brace,
\* and the brace step leaves both alone.
C10_Witness ==
    /\ pc = "returned"
    /\ raw_text = <<"\\", "\\", "{">>
    /\ cleaned = <<"\\", "'", "5", "c", "{">>
    /\ fresh = <<TRUE, TRUE, TRUE, TRUE, FALSE>>
(***************************************************************************)
(* is_codeword_with_numeric_arg (utils.py 80-93)                           *)
(***************************************************************************)
\* The longest token value and the longest codeword drawn.
MaxValueLen == 4
MaxCodewordLen == 2

\* A letter of the codewords, a digit, a blank and another letter.
ValueAlphabet == {"f", "1", " ", "x"}
CodewordAlphabet == {"f", "1"}

Str(s) == [type |-> "str", val |-> s]

\* A lark Token: the name of its terminal (Token.type, which repr() shows) and
\* the five fields the module reads; a Token's value may be any object.
Token(terminal, value, line, end_line, start_pos, end_pos) ==
    [type |-> "Token", terminal |-> terminal, value |-> value, line |-> line,
     end_line |-> end_line, start_pos |-> start_pos, end_pos |-> end_pos]

\* The first arguments drawn: a Token whose value is a str, a Token whose
\* value is an int (no strip()), and two objects with no attribute value.
CodewordTokens ==
    {Token("CONTROLWORD", Str(v), 1, 1, 0, Len(v)) : v \in SeqsOf(ValueAlphabet, 0, MaxValueLen)}
    \cup {Token("CONTROLWORD", [type |-> "int", val |-> 1], 1, 1, 0, 1)}
    \cup {None, [type |-> "int", val |-> 1]}

\* Whether token.value raises AttributeError, or token.value.strip() does.
ValueRaisesAttributeError(t) ==
    IF t.type # "Token" THEN TRUE ELSE t.value.type # "str"

\* str.isdigit() on the empty string taken for true, as all() of nothing is.
StrIsDigitOrEmpty(s) == \A i \in 1..Len(s) : IsDecChar(s[i])

\* str.isdigit(): at least one character, and every character a digit.
StrIsDigit(s) == s # <<>> /\ \A i \in 1..Len(s) : IsDecChar(s[i])

InitCodeword ==
    /\ pc = "is_codeword_with_numeric_arg"
    /\ token \in CodewordTokens
    /\ codeword \in SeqsOf(CodewordAlphabet, 0, MaxCodewordLen)
    /\ codeword_return = None
    /\ IdleButCw

\* lines 87-90: the stripped value starts with the codeword and the rest is
\* digits.
CodewordReturnTrue ==
    /\ pc = "is_codeword_with_numeric_arg"
    /\ ~ValueRaisesAttributeError(token)
    /\ LET val == Strip(token.value.val)
       IN  StartsWith(val, codeword) /\ StrIsDigit(From(val, Len(codeword)))
    /\ codeword_return' = TRUE
    /\ pc' = "returned"
    /\ UNCHANGED <<token, codeword, notCwVars>>

\* lines 87-89, 93: the condition of the if is false.
CodewordReturnFalse ==
    /\ pc = "is_codeword_with_numeric_arg"
    /\ ~ValueRaisesAttributeError(token)
    /\ LET val == Strip(token.value.val)
       IN  ~(StartsWith(val, codeword) /\ StrIsDigit(From(val, Len(codeword))))
    /\ codeword_return' = FALSE
    /\ pc' = "returned"
    /\ UNCHANGED <<token, codeword, notCwVars>>

\* lines 87, 91-92: the AttributeError is caught.
CodewordAttributeError ==
    /\ pc = "is_codeword_with_numeric_arg"
    /\ ValueRaisesAttributeError(token)
    /\ codeword_return' = FALSE
    /\ pc' = "returned"
    /\ UNCHANGED <<token, codeword, notCwVars>>

NextCodeword == CodewordReturnTrue \/ CodewordReturnFalse \/ CodewordAttributeError

SpecCodeword == InitCodeword /\ [][NextCodeword]_vars

(***************************************************************************)
(* C5                                                                      *)
(***************************************************************************)
HasTextValue(t) == IF t.type = "Token" THEN t.value.type = "str" ELSE FALSE

\* core is v without its surrounding whitespace.
IsTrimmed(core, v) ==
    /\ \E i, j \in 0..Len(v) : v = Repeat(" ", i) \o core \o Repeat(" ", j)
    /\ core # <<>> => core[1] # " " /\ core[Len(core)] # " "

\* The trimmed value is the codeword followed by one or more decimal digits.
IsCodewordThenDigits(v, cw) ==
    \E lo \in 1..(Len(v) + 1) : \E hi \in 0..Len(v) :
        LET core == SubSeq(v, lo, hi)
        IN  /\ IsTrimmed(core, v)
            /\ Len(core) > Len(cw)
            /\ \A i \in 1..Len(cw) : core[i] = cw[i]
            /\ \A i \in (Len(cw) + 1)..Len(core) : core[i] \in {"0", "1", "2", "3",
                                                    "4", "5", "6", "7", "8", "9"}

MaxNodes == 5

\* A lark Tree: its data (the name of the rule) and its children.
Tree(data, children) == [type |-> "Tree", data |-> data, children |-> children]

TreeTags == {"doc", "sub"}

\* The leaves drawn: a Token and a child that is neither Token nor Tree.
TreeLeaves == {Token("TEXT", Str(<<"h", "i">>), 1, 1, 0, 2),
               [type |-> "int", val |-> 7]}

RECURSIVE TreesOfSize(_), ForestsOfSize(_)
\* The trees with k nodes and leaves in all.
TreesOfSize(k) ==
    IF k < 1 THEN {}
    ELSE {Tree(d, c) : d \in TreeTags, c \in ForestsOfSize(k - 1)}

\* The sequences of children with m nodes and leaves in all.
ForestsOfSize(m) ==
    IF m = 0 THEN {<<>>}
    ELSE UNION {{<<x>> \o r : x \in (IF k = 1 THEN TreeLeaves ELSE {}) \cup TreesOfSize(k),
                              r \in ForestsOfSize(m - k)} : k \in 1..m}

\* f"Tree('{tree.data}')"
TreeMarker(t) == [type |-> "str", repr_of |-> "Tree", args |-> <<t.data>>]

\* repr(child): a Token shows its terminal and its value, Token('TEXT', 'hi'),
\* and none of its positions; any other object shows its value.
Repr(child) ==
    IF child.type = "Token"
    THEN [type |-> "str", repr_of |-> "Token", args |-> <<child.terminal, child.value>>]
    ELSE [type |-> "str", repr_of |-> child.type, args |-> <<child>>]

\* A frame of a generator: the tree it walks and where it is: 0 before its
\* first statement, k at the k-th child.
Frame(t, at) == [tree |-> t, at |-> at]

\* A call of a generator function: nothing has run yet.
NewGenerator(fn, t) == [fn |-> fn, stack |-> <<Frame(t, 0)>>]

Top(g) == g.stack[Len(g.stack)]

\* The generator with its top frame at its next child.
NextChild(g) ==
    [g EXCEPT !.stack[Len(g.stack)].at = Max(1, Top(g).at) + 1]

\* The generator after its top frame returned: the frame below, if there is
\* one, goes on with its next child.
Returned(g) ==
    LET below == SubSeq(g.stack, 1, Len(g.stack) - 1)
    IN  IF below = <<>> THEN [g EXCEPT !.stack = <<>>]
        ELSE NextChild([g EXCEPT !.stack = below])

\* The frame of the inner for loop without the marker of its tree.
SubtreeFrameNoMarker(child) == Frame(child, 1)

\* line 216: flatten_tree(child), a generator that has not run.
SubtreeFrame(child) == Frame(child, 0)

\* Which statement a flatten_tree generator runs next.
FlattenTreeAt(g) ==
    LET f == Top(g)
    IN  IF f.at = 0 THEN "marker"
        ELSE IF f.at > Len(f.tree.children) THEN "return"
        ELSE IF f.tree.children[f.at].type = "Token" THEN "token"
        ELSE IF f.tree.children[f.at].type = "Tree" THEN "tree"
        ELSE "other"

\* One statement of flatten_tree: the generator after it and what it yielded.
FlattenTreeStep(g) ==
    LET f     == Top(g)
        child == f.tree.children[f.at]
        at    == FlattenTreeAt(g)
    IN  CASE at = "marker" ->  \* line 211
               [gen |-> [g EXCEPT !.stack[Len(g.stack)].at = 1],
                yielded |-> <<TreeMarker(f.tree)>>]
          [] at = "token" ->   \* lines 213-214
               [gen |-> NextChild(g), yielded |-> <<Repr(child)>>]
          [] at = "tree" ->    \* lines 215-217
               [gen |-> [g EXCEPT !.stack = Append(g.stack, SubtreeFrame(child))],
                yielded |-> <<>>]
          [] at = "other" ->   \* lines 218-219
               [gen |-> NextChild(g), yielded |-> <<Repr(child)>>]
          [] at = "return" ->  \* the for loop of line 212 is over
               [gen |-> Returned(g), yielded |-> <<>>]

\* line 214 in the place of line 232: the repr of the Token.
TokenPayloadRepr(child) == Repr(child)

\* line 232: child.value
TokenPayload(child) == child.value

\* Which statement a flatten_tree_to_string_array generator runs next.
FlattenToStringArrayAt(g) ==
    LET f  == Top(g)
        at == Max(1, f.at)
    IN  IF at > Len(f.tree.children) THEN "return"
        ELSE IF f.tree.children[at].type = "Tree" THEN "tree"
        ELSE IF f.tree.children[at].type = "Token" THEN "token"
        ELSE "other"

\* One statement of flatten_tree_to_string_array.
FlattenToStringArrayStep(g) ==
    LET f     == Top(g)
        child == f.tree.children[Max(1, f.at)]
        at    == FlattenToStringArrayAt(g)
    IN  CASE at = "tree" ->    \* lines 228-230
               [gen |-> [g EXCEPT !.stack = Append(g.stack, Frame(child, 0))],
                yielded |-> <<>>]
          [] at = "token" ->   \* lines 231-232
               [gen |-> NextChild(g), yielded |-> <<TokenPayload(child)>>]
          [] at = "other" ->   \* lines 233-234
               [gen |-> NextChild(g), yielded |-> <<child>>]
          [] at = "return" ->  \* the for loop of line 227 is over
               [gen |-> Returned(g), yielded |-> <<>>]

GeneratorAt(g) ==
    IF g.fn = "flatten_tree" THEN FlattenTreeAt(g) ELSE FlattenToStringArrayAt(g)

GeneratorStep(g) ==
    IF g.fn = "flatten_tree" THEN FlattenTreeStep(g) ELSE FlattenToStringArrayStep(g)

RECURSIVE List(_)
\* list(g): the generator run until it is exhausted.
List(g) ==
    IF g.stack = <<>> THEN <<>>
    ELSE GeneratorStep(g).yielded \o List(GeneratorStep(g).gen)

InitFlatten ==
    /\ pc = "iterating"
    /\ \E k \in 1..MaxNodes : tree \in TreesOfSize(k)
    /\ \E fn \in {"flatten_tree", "flatten_tree_to_string_array"} :
            gen = NewGenerator(fn, tree)
    /\ out = <<>>
    /\ IdleButFlat

\* Each action is the consumer taking the generator one statement further and
\* keeping what it yields.

\* line 211
FlattenTreeYieldMarker ==
    /\ pc = "iterating"
    /\ gen.fn = "flatten_tree"
    /\ GeneratorAt(gen) = "marker"
    /\ gen' = GeneratorStep(gen).gen
    /\ out' = out \o GeneratorStep(gen).yielded
    /\ pc' = IF gen'.stack = <<>> THEN "exhausted" ELSE "iterating"
    /\ UNCHANGED <<tree, notFlatVars>>

\* lines 213-214
FlattenTreeYieldToken ==
    /\ pc = "iterating"
    /\ gen.fn = "flatten_tree"
    /\ GeneratorAt(gen) = "token"
    /\ gen' = GeneratorStep(gen).gen
    /\ out' = out \o GeneratorStep(gen).yielded
    /\ pc' = IF gen'.stack = <<>> THEN "exhausted" ELSE "iterating"
    /\ UNCHANGED <<tree, notFlatVars>>

\* lines 215-217
FlattenTreeEnterSubtree ==
    /\ pc = "iterating"
    /\ gen.fn = "flatten_tree"
    /\ GeneratorAt(gen) = "tree"
    /\ gen' = GeneratorStep(gen).gen
    /\ out' = out \o GeneratorStep(gen).yielded
    /\ pc' = IF gen'.stack = <<>> THEN "exhausted" ELSE "iterating"
    /\ UNCHANGED <<tree, notFlatVars>>

\* lines 218-219
FlattenTreeYieldOther ==
    /\ pc = "iterating"
    /\ gen.fn = "flatten_tree"
    /\ GeneratorAt(gen) = "other"
    /\ gen' = GeneratorStep(gen).gen
    /\ out' = out \o GeneratorStep(gen).yielded
    /\ pc' = IF gen'.stack = <<>> THEN "exhausted" ELSE "iterating"
    /\ UNCHANGED <<tree, notFlatVars>>

\* the end of the loop of line 212
FlattenTreeReturn ==
    /\ pc = "iterating"
    /\ gen.fn = "flatten_tree"
    /\ GeneratorAt(gen) = "return"
    /\ gen' = GeneratorStep(gen).gen
    /\ out' = out \o GeneratorStep(gen).yielded
    /\ pc' = IF gen'.stack = <<>> THEN "exhausted" ELSE "iterating"
    /\ UNCHANGED <<tree, notFlatVars>>

\* lines 228-230
ToStringArrayEnterSubtree ==
    /\ pc = "iterating"
    /\ gen.fn = "flatten_tree_to_string_array"
    /\ GeneratorAt(gen) = "tree"
    /\ gen' = GeneratorStep(gen).gen
    /\ out' = out \o GeneratorStep(gen).yielded
    /\ pc' = IF gen'.stack = <<>> THEN "exhausted" ELSE "iterating"
    /\ UNCHANGED <<tree, notFlatVars>>

\* lines 231-232
ToStringArrayYieldValue ==
    /\ pc = "iterating"
    /\ gen.fn = "flatten_tree_to_string_array"
    /\ GeneratorAt(gen) = "token"
    /\ gen' = GeneratorStep(gen).gen
    /\ out' = out \o GeneratorStep(gen).yielded
    /\ pc' = IF gen'.stack = <<>> THEN "exhausted" ELSE "iterating"
    /\ UNCHANGED <<tree, notFlatVars>>

\* lines 233-234
ToStringArrayYieldOther ==
    /\ pc = "iterating"
    /\ gen.fn = "flatten_tree_to_string_array"
    /\ GeneratorAt(gen) = "other"
    /\ gen' = GeneratorStep(gen).gen
    /\ out' = out \o GeneratorStep(gen).yielded
    /\ pc' = IF gen'.stack = <<>> THEN "exhausted" ELSE "iterating"
    /\ UNCHANGED <<tree, notFlatVars>>

\* the end of the loop of line 227
ToStringArrayReturn ==
    /\ pc = "iterating"
    /\ gen.fn = "flatten_tree_to_string_array"
    /\ GeneratorAt(gen) = "return"
    /\ gen' = GeneratorStep(gen).gen
    /\ out' = out \o GeneratorStep(gen).yielded
    /\ pc' = IF gen'.stack = <<>> THEN "exhausted" ELSE "iterating"
    /\ UNCHANGED <<tree, notFlatVars>>

NextFlatten ==
    \/ FlattenTreeYieldMarker
    \/ FlattenTreeYieldToken
    \/ FlattenTreeEnterSubtree
    \/ FlattenTreeYieldOther
    \/ FlattenTreeReturn
    \/ ToStringArrayEnterSubtree
    \/ ToStringArrayYieldValue
    \/ ToStringArrayYieldOther
    \/ ToStringArrayReturn

SpecFlatten == InitFlatten /\ [][NextFlatten]_vars

(***************************************************************************)
(* C6                                                                      *)
(***************************************************************************)
IsTree(x) == x.type = "Tree"

RECURSIVE PreOrder(_), PreOrderOfChildren(_)
\* The pre-order sequence of t: its marker, then child by child the whole
\* sequence of a subtree or the one representation of a leaf.
PreOrder(t) == <<TreeMarker(t)>> \o PreOrderOfChildren(t.children)

PreOrderOfChildren(cs) ==
    IF cs = <<>> THEN <<>>
    ELSE (IF IsTree(Head(cs)) THEN PreOrder(Head(cs)) ELSE <<Repr(Head(cs))>>)
         \o PreOrderOfChildren(Tail(cs))

RECURSIVE CountTrees(_), CountLeaves(_)
\* The tree nodes of t, t included.
CountTrees(t) ==
    IF ~IsTree(t) THEN 0
    ELSE LET below[i \in 0..Len(t.children)] ==
                 IF i = 0 THEN 0 ELSE below[i - 1] + CountTrees(t.children[i])
         IN  1 + below[Len(t.children)]

\* The leaves of t.
CountLeaves(t) ==
    IF ~IsTree(t) THEN 1
    ELSE LET below[i \in 0..Len(t.children)] ==
                 IF i = 0 THEN 0 ELSE below[i - 1] + CountLeaves(t.children[i])
         IN  below[Len(t.children)]

IsPrefix(p, s) == Len(p) <= Len(s) /\ SubSeq(s, 1, Len(p)) = p

\* C6: flatten_tree(T) yields the pre-order sequence of T: first the marker
\* Tree('<T.data>'), then child by child the representation of a leaf or the
\* whole sequence of a subtree; it is not empty and has one entry for each
\* tree node and each leaf.
C6_FlattenIsPreOrder ==
    gen.fn = "flatten_tree" =>
        /\ IsPrefix(out, PreOrder(tree))
        /\ pc = "exhausted" =>
              /\ out = PreOrder(tree)
              /\ out # <<>>
              /\ out[1] = TreeMarker(tree)
              /\ Len(out) = CountTrees(tree) + CountLeaves(tree)

\* The tree of the spec's scenario: doc with a token and the subtree sub.
C6_Witness ==
    /\ pc = "exhausted"
    /\ gen.fn = "flatten_tree"
    /\ Len(tree.children) = 2
    /\ tree.children[1].type = "Token"
    /\ tree.children[2].type = "Tree"
    /\ Len(out) = 4
    /\ out[3] = TreeMarker(tree.children[2])

(***************************************************************************)
(* C7                                                                      *)
(***************************************************************************)
RECURSIVE LeafPayloads(_)
\* The leaves below the children cs, left to right and depth first: the value
\* of a token, any other leaf as it is, and nothing for a tree itself.
LeafPayloads(cs) ==
    IF cs = <<>> THEN <<>>
    ELSE LET c == Head(cs)
         IN  (CASE c.type = "Tree"  -> LeafPayloads(c.children)
                [] c.type = "Token" -> <<c.value>>
                [] OTHER            -> <<c>>)
             \o LeafPayloads(Tail(cs))

ContextLines == 3

Min(a, b) == IF a <= b THEN a ELSE b

\* a[lo:hi]
Slice(a, lo, hi) == SubSeq(a, lo + 1, hi)

\* Of the matches ms, not empty, the longest; of the longest the one that
\* starts earliest in a, and of those the earliest in b.
BestMatch(ms) ==
    CHOOSE m \in ms : \A m2 \in ms :
        \/ m.k > m2.k
        \/ m.k = m2.k /\ m.i < m2.i
        \/ m.k = m2.k /\ m.i = m2.i /\ m.j <= m2.j

\* The best of the matches ms, or the empty match at the start of the ranges.
BestMatchOr(ms, alo, blo) ==
    IF ms = {} THEN [i |-> alo, j |-> blo, k |-> 0] ELSE BestMatch(ms)

\* SequenceMatcher.find_longest_match with no junk: the longest block
\* a[i:i+k] == b[j:j+k] within a[alo:ahi] and b[blo:bhi], as BestMatch
\* chooses it.
FindLongestMatch(a, b, alo, ahi, blo, bhi) ==
    BestMatchOr({m \in [i : alo..(ahi - 1), j : blo..(bhi - 1),
                        k : 1..Min(ahi - alo, bhi - blo)] :
                    /\ m.i + m.k <= ahi
                    /\ m.j + m.k <= bhi
                    /\ Slice(a, m.i, m.i + m.k) = Slice(b, m.j, m.j + m.k)},
                alo, blo)

RECURSIVE MatchingBlocksIn(_, _, _, _, _, _)
\* The longest match m of a[alo:ahi] and b[blo:bhi], if it is not empty, with
\* the matching blocks to its left and to its right, in order.
MatchingBlocksAround(m, a, b, alo, ahi, blo, bhi) ==
    IF m.k = 0 THEN <<>>
    ELSE (IF alo < m.i /\ blo < m.j
          THEN MatchingBlocksIn(a, b, alo, m.i, blo, m.j) ELSE <<>>)
         \o <<m>>
         \o (IF m.i + m.k < ahi /\ m.j + m.k < bhi
             THEN MatchingBlocksIn(a, b, m.i + m.k, ahi, m.j + m.k, bhi)
             ELSE <<>>)

\* The matching blocks within a[alo:ahi] and b[blo:bhi].
MatchingBlocksIn(a, b, alo, ahi, blo, bhi) ==
    MatchingBlocksAround(FindLongestMatch(a, b, alo, ahi, blo, bhi),
                         a, b, alo, ahi, blo, bhi)

RECURSIVE CollapseAdjacent(_)
\* Adjacent blocks made one.
CollapseAdjacent(blocks) ==
    IF Len(blocks) < 2 THEN blocks
    ELSE IF blocks[1].i + blocks[1].k = blocks[2].i
            /\ blocks[1].j + blocks[1].k = blocks[2].j
         THEN CollapseAdjacent(<<[i |-> blocks[1].i, j |-> blocks[1].j,
                                  k |-> blocks[1].k + blocks[2].k]>>
                               \o SubSeq(blocks, 3, Len(blocks)))
         ELSE <<blocks[1]>> \o CollapseAdjacent(Tail(blocks))

\* SequenceMatcher.get_matching_blocks: the blocks and the closing dummy.
MatchingBlocks(a, b) ==
    CollapseAdjacent(MatchingBlocksIn(a, b, 0, Len(a), 0, Len(b)))
    \o <<[i |-> Len(a), j |-> Len(b), k |-> 0]>>

Opcode(tag, i1, i2, j1, j2) ==
    [tag |-> tag, i1 |-> i1, i2 |-> i2, j1 |-> j1, j2 |-> j2]

\* The opcodes of the block m reached from the positions i and j: what
\* changes before it, and the block itself unless it is the closing dummy.
OpcodesOfBlock(m, i, j) ==
    (IF i < m.i /\ j < m.j THEN <<Opcode("replace", i, m.i, j, m.j)>>
     ELSE IF i < m.i THEN <<Opcode("delete", i, m.i, j, m.j)>>
     ELSE IF j < m.j THEN <<Opcode("insert", i, m.i, j, m.j)>>
     ELSE <<>>)
    \o (IF m.k > 0 THEN <<Opcode("equal", m.i, m.i + m.k, m.j, m.j + m.k)>>
        ELSE <<>>)

RECURSIVE OpcodesFrom(_, _, _)
\* SequenceMatcher.get_opcodes, from the positions i and j on.
OpcodesFrom(blocks, i, j) ==
    IF blocks = <<>> THEN <<>>
    ELSE OpcodesOfBlock(Head(blocks), i, j)
         \o OpcodesFrom(Tail(blocks), Head(blocks).i + Head(blocks).k,
                        Head(blocks).j + Head(blocks).k)

Opcodes(a, b) == OpcodesFrom(MatchingBlocks(a, b), 0, 0)

\* The head of an equal opcode cut to n elements, and its tail.
HeadOf(c, n) == Opcode(c.tag, c.i1, Min(c.i2, c.i1 + n), c.j1, Min(c.j2, c.j1 + n))
TailOf(c, n) == Opcode(c.tag, Max(c.i1, c.i2 - n), c.i2, Max(c.j1, c.j2 - n), c.j2)

RECURSIVE GroupsFrom(_, _, _)
\* The loop of get_grouped_opcodes: a long equal run closes a group.
GroupsFrom(codes, group, n) ==
    IF codes = <<>>
    THEN IF group # <<>> /\ ~(Len(group) = 1 /\ group[1].tag = "equal")
         THEN <<group>> ELSE <<>>
    ELSE IF Head(codes).tag = "equal" /\ Head(codes).i2 - Head(codes).i1 > n + n
         THEN <<Append(group, HeadOf(Head(codes), n))>>
              \o GroupsFrom(Tail(codes), <<TailOf(Head(codes), n)>>, n)
         ELSE GroupsFrom(Tail(codes), Append(group, Head(codes)), n)

\* No opcodes stand for one equal opcode.
OrOneEqual(codes) ==
    IF codes = <<>> THEN <<Opcode("equal", 0, 1, 0, 1)>> ELSE codes

\* A leading equal opcode keeps its last n elements.
TrimFirst(codes, n) ==
    IF codes[1].tag = "equal" THEN [codes EXCEPT ![1] = TailOf(codes[1], n)]
    ELSE codes

\* A trailing equal opcode keeps its first n elements.
TrimLast(codes, n) ==
    IF codes[Len(codes)].tag = "equal"
    THEN [codes EXCEPT ![Len(codes)] = HeadOf(codes[Len(codes)], n)]
    ELSE codes

\* SequenceMatcher.get_grouped_opcodes(n).
GroupedOpcodes(a, b, n) ==
    GroupsFrom(TrimLast(TrimFirst(OrOneEqual(Opcodes(a, b)), n), n), <<>>, n)

\* A line of the diff: a fixed text, then a unit of the input or a range.
DiffLine(text, body) == [text |-> text, body |-> body]

\* _format_range_context: the line numbers "first,last" of a[start:stop].
RangeContext(start, stop) ==
    IF stop - start = 0 THEN <<start>>
    ELSE IF stop - start = 1 THEN <<start + 1>>
    ELSE <<start + 1, stop>>

\* The prefix of the lines of an opcode.
PrefixOf(tag) ==
    CASE tag = "insert"  -> "+ "
      [] tag = "delete"  -> "- "
      [] tag = "replace" -> "! "
      [] tag = "equal"   -> "  "

\* The units[lo:hi], each after the prefix.
PrefixedLines(prefix, units, lo, hi) ==
    [k \in 1..(hi - lo) |-> DiffLine(prefix, units[lo + k])]

RECURSIVE LinesOfA(_, _), LinesOfB(_, _)
\* The lines of a group on the side of a: every opcode but the inserts.
LinesOfA(group, a) ==
    IF group = <<>> THEN <<>>
    ELSE (IF Head(group).tag = "insert" THEN <<>>
          ELSE PrefixedLines(PrefixOf(Head(group).tag), a,
                             Head(group).i1, Head(group).i2))
         \o LinesOfA(Tail(group), a)

\* The lines of a group on the side of b: every opcode but the deletes.
LinesOfB(group, b) ==
    IF group = <<>> THEN <<>>
    ELSE (IF Head(group).tag = "delete" THEN <<>>
          ELSE PrefixedLines(PrefixOf(Head(group).tag), b,
                             Head(group).j1, Head(group).j2))
         \o LinesOfB(Tail(group), b)

HasTag(group, tags) == \E k \in 1..Len(group) : group[k].tag \in tags

\* The lines context_diff gives for one group.
GroupLines(group, a, b) ==
    <<DiffLine("***************\n", <<>>),
      DiffLine("*** ? ****\n", RangeContext(group[1].i1, group[Len(group)].i2))>>
    \o (IF HasTag(group, {"replace", "delete"}) THEN LinesOfA(group, a) ELSE <<>>)
    \o <<DiffLine("--- ? ----\n", RangeContext(group[1].j1, group[Len(group)].j2))>>
    \o (IF HasTag(group, {"replace", "insert"}) THEN LinesOfB(group, b) ELSE <<>>)

RECURSIVE AllGroupLines(_, _, _)
AllGroupLines(groups, a, b) ==
    IF groups = <<>> THEN <<>>
    ELSE GroupLines(Head(groups), a, b) \o AllGroupLines(Tail(groups), a, b)

\* The two header lines, if there is a line at all.
WithHeader(lines) ==
    IF lines = <<>> THEN <<>>
    ELSE <<DiffLine("*** \n", <<>>), DiffLine("--- \n", <<>>)>> \o lines

\* list(difflib.context_diff(a, b)): nothing when no group differs, else the
\* two header lines and the lines of each group.
ContextDiff(a, b) ==
    WithHeader(AllGroupLines(GroupedOpcodes(a, b, ContextLines), a, b))

\* "\n".join(lines): the lines with a newline between each two; the empty
\* string is the empty sequence.
JoinLines(lines) ==
    [k \in 1..(IF lines = <<>> THEN 0 ELSE 2 * Len(lines) - 1) |->
        IF k % 2 = 1 THEN lines[(k + 1) \div 2] ELSE DiffLine("\n", <<>>)]

(***************************************************************************)
(* get_string_diff (utils.py 161-181) and get_tree_diff (utils.py 183-204) *)
(***************************************************************************)
\* The longest original and revised strings drawn.
MaxOriginalLen == 4
MaxRevisedLen == 3

\* The most nodes and leaves of the original and revised trees drawn.
MaxOriginalNodes == 3
MaxRevisedNodes == 2

\* A letter, the character of the separators and the newline.
DiffAlphabet == {"a", ",", "\n"}

\* The separators drawn: patterns with no special character, which match
\* themselves.
Separators == {Str(<<",">>), Str(<<",", ",">>)}

RECURSIVE SplitLinesKeepEnds(_, _)
\* s.splitlines(keepends=True), with cur the line begun.
SplitLinesKeepEnds(s, cur) ==
    IF s = <<>> THEN (IF cur = <<>> THEN <<>> ELSE <<cur>>)
    ELSE IF Head(s) = "\n"
         THEN <<Append(cur, "\n")>> \o SplitLinesKeepEnds(Tail(s), <<>>)
         ELSE SplitLinesKeepEnds(Tail(s), Append(cur, Head(s)))

\* s.replace('\n', '')
WithoutNewlines(s) == StrReplace(s, <<"\n">>, <<>>)

\* re.split(pattern, s) for a pattern that matches itself: what lies before,
\* between and after the matches, empty strings included.
ReSplit(pattern, s) ==
    LET starts == MatchStarts(s, pattern, 1)
        n      == Len(starts)
    IN  [k \in 1..(n + 1) |->
            SubSeq(s,
                   IF k = 1 THEN 1 ELSE starts[k - 1] + Len(pattern),
                   IF k = n + 1 THEN Len(s) ELSE starts[k] - 1)]

\* The list with its empty strings kept.
KeepEmpty(units) == units

\* [i for i in units if i != '']
DropEmpty(units) == SelectSeq(units, LAMBDA u : u # <<>>)

\* lines 176-179: the units of one argument when a separator is given.
SplitBySeparator(pattern, s) == DropEmpty(ReSplit(pattern, WithoutNewlines(s)))

\* list(flatten_tree_to_string_array(t)) in the place of line 202.
FlatListOfValues(t) == List(NewGenerator("flatten_tree_to_string_array", t))

\* line 201: list(flatten_tree(original))
FlatOriginal(t) == List(NewGenerator("flatten_tree", t))

\* line 202: list(flatten_tree(revised))
FlatRevised(t) == List(NewGenerator("flatten_tree", t))

InitDiff ==
    /\ \/ /\ pc = "get_string_diff"
          /\ original \in SeqsOf(DiffAlphabet, 0, MaxOriginalLen)
          /\ revised \in SeqsOf(DiffAlphabet, 0, MaxRevisedLen)
          /\ sep \in Separators \cup {None}
       \/ /\ pc = "get_tree_diff"
          /\ \E k \in 1..MaxOriginalNodes : original \in TreesOfSize(k)
          /\ \/ \E k \in 1..MaxRevisedNodes : revised \in TreesOfSize(k)
             \/ revised = original
          /\ sep = None
    /\ orig_split = None /\ revised_split = None
    /\ flat_original = None /\ flat_revised = None
    /\ diff_return = None
    /\ IdleButDiff

\* lines 172-174, 180-181: no separator, the lines with their ends.
StringDiffByLines ==
    /\ pc = "get_string_diff"
    /\ sep = None
    /\ orig_split' = SplitLinesKeepEnds(original, <<>>)
    /\ revised_split' = SplitLinesKeepEnds(revised, <<>>)
    /\ diff_return' = JoinLines(ContextDiff(orig_split', revised_split'))
    /\ pc' = "returned"
    /\ UNCHANGED <<original, revised, sep, flat_original, flat_revised, notDiffVars>>

\* lines 175-181: a separator.
StringDiffBySeparator ==
    /\ pc = "get_string_diff"
    /\ sep # None
    /\ orig_split' = SplitBySeparator(sep.val, original)
    /\ revised_split' = SplitBySeparator(sep.val, revised)
    /\ diff_return' = JoinLines(ContextDiff(orig_split', revised_split'))
    /\ pc' = "returned"
    /\ UNCHANGED <<original, revised, sep, flat_original, flat_revised, notDiffVars>>

\* lines 200-204
GetTreeDiff ==
    /\ pc = "get_tree_diff"
    /\ flat_original' = FlatOriginal(original)
    /\ flat_revised' = FlatRevised(revised)
    /\ diff_return' = JoinLines(ContextDiff(flat_original', flat_revised'))
    /\ pc' = "tree_diff_returned"
    /\ UNCHANGED <<original, revised, sep, orig_split, revised_split, notDiffVars>>

NextDiff == StringDiffByLines \/ StringDiffBySeparator \/ GetTreeDiff

SpecDiff == InitDiff /\ [][NextDiff]_vars
(***************************************************************************)
(* C8                                                                      *)
(***************************************************************************)
\* C8: get_tree_diff(T, T) is the empty string: no header, no context and no
\* change marker.
C8_SameTreeNoDiff ==
    (pc = "tree_diff_returned" /\ original = revised) => diff_return = <<>>

\* A tree with a token and a subtree, diffed against itself.
C8_Witness ==
    /\ pc = "tree_diff_returned"
    /\ original = revised
    /\ Len(original.children) = 2
    /\ original.children[1].type = "Token"
    /\ original.children[2].type = "Tree"
    /\ flat_original = <<TreeMarker(original), Repr(original.children[1]),
                         TreeMarker(original.children[2])>>
    /\ flat_revised = flat_original
    /\ diff_return = <<>>

(***************************************************************************)
(* C9                                                                      *)
(***************************************************************************)
RECURSIVE UnitsOf(_, _, _)
\* The non-empty units of s between the separators, read from the left with
\* cur the unit begun.
UnitsOf(s, separator, cur) ==
    LET done == IF cur = <<>> THEN <<>> ELSE <<cur>>
    IN  IF s = <<>> THEN done
        ELSE IF StartsWith(s, separator)
             THEN done \o UnitsOf(From(s, Len(separator)), separator, <<>>)
             ELSE UnitsOf(Tail(s), separator, Append(cur, Head(s)))

\* The non-empty units of s once its newlines are removed.
NonEmptyUnits(s, separator) ==
    UnitsOf(SelectSeq(s, LAMBDA c : c # "\n"), separator, <<>>)

\* C9: with a separator, what is compared are the sequences of non-empty
\* units of the two inputs with their newlines removed; no empty unit takes
\* part, and when the two sequences are equal the result reports no
\* difference.
C9_EmptyUnitsDropped ==
    (pc = "returned" /\ sep # None) =>
        /\ orig_split = NonEmptyUnits(original, sep.val)
        /\ revised_split = NonEmptyUnits(revised, sep.val)
        /\ \A k \in 1..Len(orig_split) : orig_split[k] # <<>>
        /\ \A k \in 1..Len(revised_split) : revised_split[k] # <<>>
        /\ (NonEmptyUnits(original, sep.val) = NonEmptyUnits(revised, sep.val)
                => diff_return = <<>>)

\* "a,,a" against "a,a" with the separator ",".
C9_Witness ==
    /\ pc = "returned"
    /\ sep = Str(<<",">>)
    /\ original = <<"a", ",", ",", "a">>
    /\ revised = <<"a", ",", "a">>
    /\ orig_split = <<<<"a">>, <<"a">>>>
    /\ diff_return = <<>>

(***************************************************************************)
(* log_validators, log_transformations (utils.py 117-129) and              *)
(* log_htmlrtf_stripping (utils.py 131-147), with the loggers of the       *)
(* logging module they use                                                 *)
(***************************************************************************)
\* The most log calls of a behaviour.
MaxCalls == 2

\* The levels of logging; TRACE stands for a level more verbose than DEBUG.
NOTSET == 0
TRACE == 5
DEBUG == 10
WARNING == 30

Levels == {NOTSET, TRACE, DEBUG, WARNING}

ValidationLogger == "RTFDE.validation_logger"
TransformLogger == "RTFDE.transform_logger"
StrippingLogger == "RTFDE.HTMLRTF_Stripping_logger"

\* The three gated channels.
Channels == {ValidationLogger, TransformLogger, StrippingLogger}

\* The loggers that can be configured: the channels and their parent, the
\* logger of line 28.
Loggers == Channels \cup {"RTFDE"}

\* The payloads drawn: two Tokens and a str.
Payloads ==
    {Token("CONTROLWORD", Str(<<"\\", "f", "1">>), 1, 1, 0, 3),
     Token("TEXT", Str(<<"h", "i">>), 2, 3, 4, 6),
     Str(<<"h", "i">>)}

RECURSIVE EffectiveLevel(_, _)
\* Logger.getEffectiveLevel: the first level set from the logger up; the
\* root logger is at its default, WARNING.
EffectiveLevel(lv, logger) ==
    IF logger = "root" THEN WARNING
    ELSE IF lv[logger] # NOTSET THEN lv[logger]
    ELSE EffectiveLevel(lv, IF logger = "RTFDE" THEN "root" ELSE "RTFDE")

\* Logger.isEnabledFor(levelno), nothing disabled.
IsEnabledFor(lv, logger, levelno) == levelno >= EffectiveLevel(lv, logger)

\* The record Logger.debug(msg) makes.
LogRecord(logger, msg) == [name |-> logger, levelno |-> DEBUG, msg |-> msg]

\* Logger.debug(msg): the record is emitted if the logger is enabled for
\* DEBUG.
LoggerDebug(logger, msg) ==
    records' = IF IsEnabledFor(level, logger, DEBUG)
               THEN Append(records, LogRecord(logger, msg))
               ELSE records

\* The gate as isEnabledFor would have it.
GateOpenIfEnabled(logger) == IsEnabledFor(level, logger, DEBUG)

\* lines 121, 128, 138: logger.level == logging.DEBUG
GateOpen(logger) == level[logger] = DEBUG

\* lines 141-146: tok_desc.format(...)
TokDesc(data) ==
    [text |-> "HTMLRTF Removed: {value}, {line}, {end_line}, {start_pos}, {end_pos}",
     value |-> data.value, line |-> data.line, end_line |-> data.end_line,
     start_pos |-> data.start_pos, end_pos |-> data.end_pos]

Init ==
    /\ pc = "idle"
    /\ level = [l \in Loggers |-> NOTSET]
    /\ records = <<>>
    /\ raised = None
    /\ ncalls = 0
    /\ IdleButLog

\* Logger.setLevel of a channel or of their parent.
SetLevel(logger, lv) ==
    /\ level' = [level EXCEPT ![logger] = lv]
    /\ UNCHANGED <<pc, records, raised, ncalls, notLogVars>>

\* lines 117-122
LogValidators(data) ==
    /\ ncalls < MaxCalls
    /\ ncalls' = ncalls + 1
    /\ IF GateOpen(ValidationLogger)
       THEN LoggerDebug(ValidationLogger, data)
       ELSE UNCHANGED records
    /\ raised' = None
    /\ UNCHANGED <<pc, level, notLogVars>>

\* lines 124-129
LogTransformations(data) ==
    /\ ncalls < MaxCalls
    /\ ncalls' = ncalls + 1
    /\ IF GateOpen(TransformLogger)
       THEN LoggerDebug(TransformLogger, data)
       ELSE UNCHANGED records
    /\ raised' = None
    /\ UNCHANGED <<pc, level, notLogVars>>

\* lines 131-147
LogHtmlrtfStripping(data) ==
    /\ ncalls < MaxCalls
    /\ ncalls' = ncalls + 1
    /\ IF GateOpen(StrippingLogger)
       THEN IF data.type # "Token"
            THEN /\ raised' = [type |-> "AttributeError"]
                 /\ UNCHANGED records
            ELSE /\ LoggerDebug(StrippingLogger, TokDesc(data))
                 /\ raised' = None
       ELSE /\ raised' = None
            /\ UNCHANGED records
    /\ UNCHANGED <<pc, level, notLogVars>>

Next ==
    \/ \E logger \in Loggers, lv \in Levels : SetLevel(logger, lv)
    \/ \E data \in Payloads : LogValidators(data)
    \/ \E data \in Payloads : LogTransformations(data)
    \/ \E data \in Payloads : LogHtmlrtfStripping(data)

Spec == Init /\ [][Next]_vars

(***************************************************************************)
(* C1                                                                      *)
(***************************************************************************)
\* The call of a channel's gate with a payload.
LogCall(channel, data) ==
    CASE channel = ValidationLogger -> LogValidators(data)
      [] channel = TransformLogger  -> LogTransformations(data)
      [] channel = StrippingLogger  -> LogHtmlrtfStripping(data)

\* What a gate hands to its channel for a payload.
Emitted(channel, data) ==
    IF channel = StrippingLogger THEN TokDesc(data) ELSE data

\* The payloads a gate takes: log_htmlrtf_stripping takes Tokens.
Accepts(channel, data) == channel = StrippingLogger => data.type = "Token"

\* The channel's threshold permits debug-level output: its own level if it
\* has one, else the level it inherits, is DEBUG or more verbose.
PermitsDebug(channel) ==
    LET own       == level[channel]
        inherited == IF level["RTFDE"] # NOTSET THEN level["RTFDE"] ELSE WARNING
    IN  (IF own # NOTSET THEN own ELSE inherited) <= DEBUG

\* The call emitted its payload to the channel, and only that.
EmitsPayload(channel, data) ==
    records' = Append(records, LogRecord(channel, Emitted(channel, data)))

\* C1 as stated: a call emits its payload if and only if the channel's
\* threshold permits debug-level output, a level more verbose than DEBUG or
\* an inherited DEBUG included; otherwise it emits nothing and changes
\* nothing.
C1_EmitsIffThresholdPermits ==
    [][\A channel \in Channels : \A data \in Payloads :
          (Accepts(channel, data) /\ LogCall(channel, data)) =>
              IF PermitsDebug(channel)
              THEN EmitsPayload(channel, data)
              ELSE UNCHANGED <<records, level>>]_vars

\* C1 as amended: a call emits its payload if and only if the channel's own
\* level is exactly DEBUG; at any other level, a level more verbose than
\* DEBUG or NOTSET under a parent at DEBUG included, it emits nothing and
\* changes nothing.
C1_EmitsIffLevelIsDebug ==
    [][\A channel \in Channels : \A data \in Payloads :
          (Accepts(channel, data) /\ LogCall(channel, data)) =>
              IF level[channel] = DEBUG
              THEN EmitsPayload(channel, data) /\ UNCHANGED level
              ELSE UNCHANGED <<records, level>>]_vars

\* A call was made on a channel at TRACE under a parent at DEBUG, and nothing
\* was emitted; and a call on a channel at DEBUG was emitted.
C1_Witness ==
    /\ ncalls = 2
    /\ level["RTFDE"] = DEBUG
    /\ level[ValidationLogger] = TRACE
    /\ level[TransformLogger] = DEBUG
    /\ Len(records) = 1
    /\ records[1].name = TransformLogger

(***************************************************************************)
(* C2                                                                      *)
(***************************************************************************)
\* C2: every call of log_htmlrtf_stripping with a payload that is no Token
\* ends in an error and emits no line, whatever the levels; so each line of
\* the channel is made of the five fields of a Token.
C2_NonTokenAlwaysRaises ==
    [][\A data \in Payloads :
          (data.type # "Token" /\ LogHtmlrtfStripping(data)) =>
              /\ raised' # None
              /\ UNCHANGED records]_vars
====
